---- MODULE Spec2Model ----
(***************************************************************************)
(* Model of streamlit_app_pacp_coder.py: the PACP code consolidation       *)
(* (process_codes), the score formatting (to_4digit_score), the merge and  *)
(* row assembly (process_files) and the "Process" button handler that      *)
(* builds the exclusion set.                                               *)
(*                                                                         *)
(* Text is modelled as a sequence of one-character strings, so that strip, *)
(* upper, split, zfill and the regular expression \d+ are computed and not *)
(* assumed.  A missing cell (pandas NaN / None) is the value NaN.          *)
(***************************************************************************)
EXTENDS Integers, Sequences, FiniteSets, TLC

VARIABLES
    DEFAULT_UNWANTED,      \* module global, line 7
    conditions_file,       \* uploaded table or NoFile
    inspections_file,
    ratings_file,
    add_codes_text,        \* text area "Add codes"
    remove_codes_text,     \* text area "Remove codes"
    unwanted,              \* exclusion set built by the last Process run
    df_out,                \* result of process_files: [err, rows]
    shown,                 \* what the page shows: "info", "error", "exception", "success"
    df,                    \* argument of process_codes
    unwanted_codes,        \* argument of process_codes
    pc_result,             \* locals and return value of process_codes
    val,                   \* argument of to_4digit_score
    score                  \* return value of to_4digit_score

vars == <<DEFAULT_UNWANTED, conditions_file, inspections_file, ratings_file,
          add_codes_text, remove_codes_text, unwanted, df_out, shown,
          df, unwanted_codes, pc_result, val, score>>

uiVars    == <<conditions_file, inspections_file, ratings_file,
               add_codes_text, remove_codes_text, unwanted, df_out, shown>>
codesVars == <<df, unwanted_codes, pc_result>>
scoreVars == <<val, score>>

----------------------------------------------------------------------------
(* Bounds *)

MaxRows == 4          \* rows of one group handed to process_codes
MaxValLen == 5        \* characters of a rating value
MaxCondRows == 2      \* rows of the conditions sheet
MaxInspRows == 2      \* rows of the inspections sheet
MaxRatingRows == 1    \* rows of the ratings sheet
MaxDropped == 1       \* columns missing from the uploaded sheets
MaxAddLen == 3        \* characters typed into "Add codes"
MaxRemoveLen == 2     \* characters typed into "Remove codes"

----------------------------------------------------------------------------
(* Text *)

NaN == <<"NaN">>
NoneVal == <<"None">>
COPYRIGHT == "(c)"    \* stands for the single character U+00A9

isna(v) == v = NaN \/ v = NoneVal

Lowers == <<"a","b","c","d","e","f","g","h","i","j","k","l","m",
            "n","o","p","q","r","s","t","u","v","w","x","y","z">>
Uppers == <<"A","B","C","D","E","F","G","H","I","J","K","L","M",
            "N","O","P","Q","R","S","T","U","V","W","X","Y","Z">>
Digits == <<"0","1","2","3","4","5","6","7","8","9">>

IsSpace(c) == c \in {" ", "\n", "\t"}
IsDigit(c) == \E i \in 1..10 : Digits[i] = c

UpperChar(c) ==
    IF \E i \in 1..26 : Lowers[i] = c
    THEN Uppers[CHOOSE i \in 1..26 : Lowers[i] = c]
    ELSE c

\* str.upper()
upper(s) == [i \in 1..Len(s) |-> UpperChar(s[i])]

RECURSIVE lstrip(_)
lstrip(s) == IF s # <<>> /\ IsSpace(Head(s)) THEN lstrip(Tail(s)) ELSE s

RECURSIVE rstrip(_)
rstrip(s) ==
    IF s # <<>> /\ IsSpace(s[Len(s)]) THEN rstrip(SubSeq(s, 1, Len(s) - 1)) ELSE s

\* str.strip()
strip(s) == rstrip(lstrip(s))

\* str(x) of a cell: text is itself, a missing float cell prints as "nan"
str(v) ==
    IF v = NaN THEN <<"n","a","n">>
    ELSE IF v = NoneVal THEN <<"N","o","n","e">>
    ELSE v

\* str(n) of a non-negative integer
RECURSIVE DecStr(_)
DecStr(n) ==
    IF n < 10 THEN <<Digits[n + 1]>>
    ELSE Append(DecStr(n \div 10), Digits[(n % 10) + 1])

\* s.startswith(c) for a one-character prefix
startswith(s, c) == s # <<>> /\ Head(s) = c

\* s[1:]
From1(s) == IF s = <<>> THEN <<>> ELSE Tail(s)

----------------------------------------------------------------------------
(* Dictionaries keep insertion order, as Python's do *)

EmptyDict == [keys |-> <<>>, vals |-> <<>>]

HasKey(d, k) == \E i \in 1..Len(d.keys) : d.keys[i] = k

KeyPos(d, k) == CHOOSE i \in 1..Len(d.keys) : d.keys[i] = k

DictGet(d, k, dflt) == IF HasKey(d, k) THEN d.vals[KeyPos(d, k)] ELSE dflt

DictPut(d, k, v) ==
    IF HasKey(d, k)
    THEN [d EXCEPT !.vals[KeyPos(d, k)] = v]
    ELSE [keys |-> Append(d.keys, k), vals |-> Append(d.vals, v)]

----------------------------------------------------------------------------
(* Tables: a set of column names and a sequence of rows; a row is a        *)
(* function from the column names, and "idx", to cell values.              *)

HasCol(t, c) == c \in t.columns

\* row.get(col, '')
RowGet(row, c) == IF c \in DOMAIN row THEN row[c] ELSE <<>>

----------------------------------------------------------------------------
(* to_4digit_score, lines 14-25 *)

\* re.search(r"\d+", s).group(0): the leftmost, longest run of digits;
\* the empty text when s has no digit (no match)
RECURSIVE TakeDigits(_)
TakeDigits(s) ==
    IF s # <<>> /\ IsDigit(Head(s)) THEN <<Head(s)>> \o TakeDigits(Tail(s)) ELSE <<>>

RECURSIVE FirstDigitRun(_)
FirstDigitRun(s) ==
    IF s = <<>> THEN <<>>
    ELSE IF IsDigit(Head(s)) THEN TakeDigits(s)
    ELSE FirstDigitRun(Tail(s))

\* str.zfill(width) of a text of digits
RECURSIVE zfill(_, _)
zfill(s, width) == IF Len(s) >= width THEN s ELSE zfill(<<"0">> \o s, width)

to_4digit_score(v) ==
    IF isna(v) THEN <<"0","0","0","0">>
    ELSE LET m == FirstDigitRun(strip(str(v)))
         IN  IF m = <<>> THEN <<"0","0","0","0">>
             ELSE zfill(m, 4)

----------------------------------------------------------------------------
(* process_codes, lines 33-77 *)

\* line 38: the rows kept in df_filtered
Keep(row, unwanted_set) ==
    /\ ~(row["PACP_Code"] \in unwanted_set)
    /\ ~isna(row["PACP_Code"])

df_filtered_of(rows, unwanted_set) ==
    SelectSeq(rows, LAMBDA r : Keep(r, unwanted_set))

\* lines 46 and 63: code = str(row['PACP_Code']).strip()
CodeOf(row) == strip(str(row["PACP_Code"]))

\* line 47: cont = str(row.get('Continuous', '')).strip().upper()
ContOf(row) == upper(strip(str(RowGet(row, "Continuous"))))

\* variant: the marker lookups are built from the unfiltered rows
LookupRows_unfiltered(rows, filtered) == rows

\* the rows the first loop iterates over (line 45)
LookupRows(rows, filtered) == filtered

\* lines 45-51, one iteration
MapStep(st, row) ==
    LET code == CodeOf(row)
        cont == ContOf(row)
    IN  IF startswith(cont, "S")
        THEN [st EXCEPT !.so_lookup = DictPut(@, <<code, From1(cont)>>, row["idx"])]
        ELSE IF startswith(cont, "F")
        THEN [st EXCEPT !.fo_lookup = DictPut(@, <<code, From1(cont)>>, row["idx"])]
        ELSE st

RECURSIVE MapLoop(_, _, _)
MapLoop(st, rows, i) ==
    IF i > Len(rows) THEN st ELSE MapLoop(MapStep(st, rows[i]), rows, i + 1)

\* variant: every start row counts as a pair, matched by a finish row or not
PairStep_nocheck(st, key, so_idx) ==
    LET fo_idx == DictGet(st.fo_lookup, key, so_idx)
        code   == key[1]
    IN  [st EXCEPT
           !.continuous_counts =
               DictPut(@, code, DictGet(st.continuous_counts, code, 0) + 1),
           !.used_indices = @ \cup {so_idx, fo_idx}]

\* lines 54-58, one iteration over so_lookup.items()
PairStep(st, key, so_idx) ==
    IF HasKey(st.fo_lookup, key)
    THEN LET fo_idx == DictGet(st.fo_lookup, key, 0)
             code   == key[1]
         IN  [st EXCEPT
                !.continuous_counts =
                    DictPut(@, code, DictGet(st.continuous_counts, code, 0) + 1),
                !.used_indices = @ \cup {so_idx, fo_idx}]
    ELSE st

RECURSIVE PairLoop(_, _)
PairLoop(st, i) ==
    IF i > Len(st.so_lookup.keys) THEN st
    ELSE PairLoop(PairStep(st, st.so_lookup.keys[i], st.so_lookup.vals[i]), i + 1)

\* line 68
ContEntry(code, count) ==
    IF count = 1 THEN code \o <<" ", COPYRIGHT>>
    ELSE code \o <<" ", COPYRIGHT, "X">> \o DecStr(count)

\* line 73: count = (df_filtered['PACP_Code'] == code).sum()
NormalCount(filtered, code) ==
    Cardinality({j \in 1..Len(filtered) : filtered[j]["PACP_Code"] = code})

\* line 74
NormalEntry(code, count) ==
    IF count > 1 THEN code \o <<" ", "X">> \o DecStr(count) ELSE code

\* variant: an ordinary code is not remembered as seen
EmitStep_forgetful(st, filtered, row) ==
    LET code == CodeOf(row)
    IN  IF row["idx"] \in st.used_indices
        THEN IF code \notin st.seen_cont
             THEN [st EXCEPT
                     !.final = Append(@, ContEntry(code,
                                   DictGet(st.continuous_counts, code, 1))),
                     !.seen_cont = @ \cup {code}]
             ELSE st
        ELSE IF code \notin st.seen_normal
             THEN [st EXCEPT
                     !.final = Append(@, NormalEntry(code, NormalCount(filtered, code)))]
             ELSE st

\* variant: one seen set shared by both categories
EmitStep_oneseen(st, filtered, row) ==
    LET code == CodeOf(row)
    IN  IF code \in st.seen_cont \cup st.seen_normal THEN st
        ELSE IF row["idx"] \in st.used_indices
        THEN [st EXCEPT
                !.final = Append(@, ContEntry(code,
                              DictGet(st.continuous_counts, code, 1))),
                !.seen_cont = @ \cup {code}]
        ELSE [st EXCEPT
                !.final = Append(@, NormalEntry(code, NormalCount(filtered, code))),
                !.seen_normal = @ \cup {code}]

\* lines 62-75, one iteration
EmitStep(st, filtered, row) ==
    LET code == CodeOf(row)
    IN  IF row["idx"] \in st.used_indices
        THEN IF code \notin st.seen_cont
             THEN [st EXCEPT
                     !.final = Append(@, ContEntry(code,
                                   DictGet(st.continuous_counts, code, 1))),
                     !.seen_cont = @ \cup {code}]
             ELSE st
        ELSE IF code \notin st.seen_normal
             THEN [st EXCEPT
                     !.final = Append(@, NormalEntry(code, NormalCount(filtered, code))),
                     !.seen_normal = @ \cup {code}]
             ELSE st

RECURSIVE EmitLoop(_, _, _)
EmitLoop(st, filtered, i) ==
    IF i > Len(filtered) THEN st
    ELSE EmitLoop(EmitStep(st, filtered, filtered[i]), filtered, i + 1)

\* line 42 and line 60
Locals0 ==
    [err |-> FALSE, so_lookup |-> EmptyDict, fo_lookup |-> EmptyDict,
     used_indices |-> {}, continuous_counts |-> EmptyDict,
     final |-> <<>>, seen_normal |-> {}, seen_cont |-> {}]

\* The whole function.  err is TRUE when df['PACP_Code'] raises KeyError.
process_codes(tbl, unwanted_set) ==
    IF ~HasCol(tbl, "PACP_Code") THEN [Locals0 EXCEPT !.err = TRUE]
    ELSE LET filtered == df_filtered_of(tbl.rows, unwanted_set)
         IN  IF filtered = <<>> THEN Locals0
             ELSE EmitLoop(PairLoop(MapLoop(Locals0, LookupRows(tbl.rows, filtered), 1), 1),
                           filtered, 1)

----------------------------------------------------------------------------
(* Numbers.  A numeric cell is <<"num", n>>, n in thousandths.  The values  *)
(* explored never end in 5 thousandths, where round() would depend on the   *)
(* binary representation of the float.                                      *)

Num(n) == <<"num", n>>
IsNum(v) == Len(v) = 2 /\ v[1] = "num"

\* value of a text of digits
RECURSIVE DigitsValue(_)
DigitsValue(s) ==
    IF s = <<>> THEN 0
    ELSE 10 * DigitsValue(SubSeq(s, 1, Len(s) - 1))
         + ((CHOOSE i \in 1..10 : Digits[i] = s[Len(s)]) - 1)

\* float(val): a number is itself, NaN is nan, a text of digits is parsed,
\* anything else (None, other text) raises; Raised stands for the exception
Raised == <<"raised">>

float(v) ==
    IF IsNum(v) THEN v
    ELSE IF v = NaN THEN NaN
    ELSE IF v = NoneVal THEN Raised
    ELSE IF strip(v) # <<>> /\ \A i \in 1..Len(strip(v)) : IsDigit(strip(v)[i])
         THEN Num(1000 * DigitsValue(strip(v)))
    ELSE Raised

\* round(x, 2) of a non-negative number
round2(v) ==
    IF IsNum(v)
    THEN LET r == v[2] % 10
         IN  Num(IF r < 5 THEN v[2] - r ELSE v[2] - r + 10)
    ELSE v

\* lines 27-31
to_float_or_none(v) == IF float(v) = Raised THEN NoneVal ELSE float(v)

----------------------------------------------------------------------------
(* process_files, lines 79-147 *)

InspectionColumns ==
    <<"InspectionID", "Pipe_Segment_Reference", "Inspection_Date", "Street", "City",
      "Length_Surveyed", "Height", "Material", "Upstream_MH", "Downstream_MH">>

RatingColumns ==
    <<"InspectionID", "STQuickRating", "OMQuickRating", "OverallPipeRatingsIndex">>

ConditionColumns == <<"InspectionID", "PACP_Code", "Continuous">>

SetOf(seq) == {seq[i] : i \in 1..Len(seq)}

\* pd.read_excel: the rows of the sheet, restricted to the columns it has
read_excel(file) ==
    [columns |-> file.columns,
     rows |-> [i \in 1..Len(file.rows) |->
                 [c \in file.columns |-> file.rows[i][c]]]]

\* dfi[[...]]: KeyError unless every listed column is present
CanSelect(tbl, cols) == SetOf(cols) \subseteq tbl.columns

\* the rows of right that match one left row, or one row of NaN (how='left')
MatchesOf(lrow, right, cols) ==
    LET hits == SelectSeq(right.rows,
                   LAMBDA r : r["InspectionID"] = lrow["InspectionID"])
        others == SetOf(cols) \ {"InspectionID"}
    IN  IF hits = <<>>
        THEN << [c \in others |-> NaN] >>
        ELSE [i \in 1..Len(hits) |-> [c \in others |-> hits[i][c]]]

\* one left row joined with each of its matches
JoinRow(lrow, matches) ==
    [i \in 1..Len(matches) |->
        [c \in DOMAIN lrow \cup DOMAIN matches[i] |->
            IF c \in DOMAIN matches[i] THEN matches[i][c] ELSE lrow[c]]]

RECURSIVE MergeRows(_, _, _)
MergeRows(lrows, right, cols) ==
    IF lrows = <<>> THEN <<>>
    ELSE JoinRow(Head(lrows), MatchesOf(Head(lrows), right, cols))
         \o MergeRows(Tail(lrows), right, cols)

\* left.merge(right[cols], on='InspectionID', how='left'); the result gets a
\* fresh index 0..n-1
merge(left, right, cols) ==
    LET joined == MergeRows(left.rows, right, cols)
    IN  [columns |-> left.columns \cup SetOf(cols),
         rows |-> [i \in 1..Len(joined) |->
                     [c \in DOMAIN joined[i] \cup {"idx"} |->
                         IF c = "idx" THEN i - 1 ELSE joined[i][c]]]]

\* order of the group keys: groupby sorts them
Alphabet == <<" ">> \o Digits \o Uppers \o Lowers
Rank(ch) == CHOOSE i \in 1..Len(Alphabet) : Alphabet[i] = ch

RECURSIVE TextLess(_, _)
TextLess(a, b) ==
    IF b = <<>> THEN FALSE
    ELSE IF a = <<>> THEN TRUE
    ELSE IF Head(a) = Head(b) THEN TextLess(Tail(a), Tail(b))
    ELSE Rank(Head(a)) < Rank(Head(b))

KeyLeq(k1, k2) == k1[1] < k2[1] \/ (k1[1] = k2[1] /\ (k1[2] = k2[2] \/ TextLess(k1[2], k2[2])))

RECURSIVE SortKeys(_)
SortKeys(S) ==
    IF S = {} THEN <<>>
    ELSE LET least == CHOOSE k \in S : \A o \in S : KeyLeq(k, o)
         IN  <<least>> \o SortKeys(S \ {least})

\* the keys groupby keeps: rows with a missing key value are dropped
\* (dropna=True is the default)
GroupKeys(dfm) ==
    {<<dfm.rows[i]["InspectionID"], dfm.rows[i]["Pipe_Segment_Reference"]>> :
        i \in {j \in 1..Len(dfm.rows) : ~isna(dfm.rows[j]["Pipe_Segment_Reference"])}}

\* dfm.groupby(['InspectionID', 'Pipe_Segment_Reference']), line 101
groupby(dfm) ==
    LET keys == SortKeys(GroupKeys(dfm))
    IN  [k \in 1..Len(keys) |->
           [key |-> keys[k],
            group |-> [columns |-> dfm.columns,
                       rows |-> SelectSeq(dfm.rows, LAMBDA r :
                                  /\ r["InspectionID"] = keys[k][1]
                                  /\ r["Pipe_Segment_Reference"] = keys[k][2])]]]

\* group[col].iloc[0] if col in group else None
FirstOrNone(group, col) ==
    IF HasCol(group, col) THEN group.rows[1][col] ELSE NoneVal

\* lines 113-120
LengthSurveyed(group) ==
    LET ls_val == FirstOrNone(group, "Length_Surveyed")
    IN  IF ~isna(ls_val)
        THEN IF float(ls_val) = Raised THEN NoneVal ELSE round2(float(ls_val))
        ELSE NoneVal

\* lines 123-124
OverallFmt(group) ==
    LET overall_float == to_float_or_none(FirstOrNone(group, "OverallPipeRatingsIndex"))
    IN  IF overall_float # NoneVal THEN round2(overall_float) ELSE NoneVal

\* lines 102-145: the output row of one group; codes stands for the fields
\* PACP_Code1..PACP_CodeN
OutputRow(key, group, codes) ==
    [InspectionID |-> key[1],
     Pipe_Segment_Reference |-> key[2],
     Inspection_Date |-> FirstOrNone(group, "Inspection_Date"),
     Street |-> FirstOrNone(group, "Street"),
     City |-> FirstOrNone(group, "City"),
     Length_Surveyed |-> LengthSurveyed(group),
     Diameter |-> FirstOrNone(group, "Height"),
     Material |-> FirstOrNone(group, "Material"),
     Upstream_MH |-> FirstOrNone(group, "Upstream_MH"),
     Downstream_MH |-> FirstOrNone(group, "Downstream_MH"),
     STR_Score |-> to_4digit_score(FirstOrNone(group, "STQuickRating")),
     OM_Scores |-> to_4digit_score(FirstOrNone(group, "OMQuickRating")),
     Overall_Scores |-> OverallFmt(group),
     codes |-> codes]

Aborted == [err |-> TRUE, rows |-> <<>>, groups |-> <<>>]

\* The whole function.  err is TRUE when an exception leaves it.  groups is
\* not returned by the code: it records the rows of each group for the
\* properties below.
process_files(conditions_xl, inspections_xl, ratings_xl, unwanted_set) ==
    LET dfc == read_excel(conditions_xl)
        dfi == read_excel(inspections_xl)
        dfr == read_excel(ratings_xl)
    IN  IF ~CanSelect(dfi, InspectionColumns) \/ ~HasCol(dfc, "InspectionID") THEN Aborted
        ELSE IF ~CanSelect(dfr, RatingColumns) THEN Aborted
        ELSE LET dfm == merge(merge(dfc, dfi, InspectionColumns), dfr, RatingColumns)
                 gs  == groupby(dfm)
                 pcs == [k \in 1..Len(gs) |-> process_codes(gs[k].group, unwanted_set)]
             IN  IF \E k \in 1..Len(gs) : pcs[k].err THEN Aborted
                 ELSE [err |-> FALSE,
                       rows |-> [k \in 1..Len(gs) |->
                                   OutputRow(gs[k].key, gs[k].group, pcs[k].final)],
                       groups |-> [k \in 1..Len(gs) |-> gs[k].group.rows]]

----------------------------------------------------------------------------
(* The group handed to process_codes *)

\* lines 7-10
DefaultUnwantedLiteral ==
    { <<"A","M","H">>, <<"M","W","L">>, <<"T","F">>, <<"T","S">>,
      <<"T","S","A">>, <<"T","F","A">>, <<"M","G","O">>, <<"M","M","C">>,
      <<"M","S","C">>, <<"A","C","B">>, <<"M","W","M">>, <<"A","E","P">>,
      <<"T","F","C">>, <<"T","B">>, <<"A","C","O","M">>, <<"T","F","D">>,
      <<"T","B","A">>, <<"T","B","D">>, <<"A","T","C">>, <<"T","B","C">>,
      <<"A","O","C">> }

\* Cells a conditions row can carry: a code with paired and unpaired rows,
\* its whitespace and case variants, an excluded code and its whitespace
\* variant, a blank code and a missing code.
CodeCells ==
    { <<"D">>, <<" ","D">>, <<"d">>, <<"A","M","H">>, <<" ","A","M","H">>,
      <<" ">>, NaN }

ContCells ==
    { NaN, <<"S","1">>, <<"F","1">>, <<"s","2">>, <<" ","F","2">> }

\* The (code, marker) combinations explored
RowPool ==
    { <<c, m>> \in CodeCells \X ContCells :
        \/ c = <<"D">>
        \/ c = <<" ","D">>      /\ m \in {<<"F","1">>}
        \/ c = <<"d">>          /\ m \in {NaN}
        \/ c = <<"A","M","H">>  /\ m \in {<<"F","1">>}
        \/ c = <<" ","A","M","H">> /\ m \in {<<"S","1">>}
        \/ c = <<" ">>          /\ m \in {NaN}
        \/ c = NaN              /\ m \in {<<"S","1">>} }

\* Exclusion sets handed to process_codes
UnwantedPool == { DefaultUnwantedLiteral, DefaultUnwantedLiteral \cup {<<"D">>} }

EmptyGroup == [columns |-> {"PACP_Code", "Continuous"}, rows |-> <<>>]

NoResult == [done |-> FALSE, out |-> Locals0]

NoFile == [columns |-> {}, rows |-> <<>>, present |-> FALSE]

NoOutput == [err |-> FALSE, rows |-> <<>>, groups |-> <<>>]

Init ==
    /\ DEFAULT_UNWANTED = DefaultUnwantedLiteral
    /\ conditions_file = NoFile
    /\ inspections_file = NoFile
    /\ ratings_file = NoFile
    /\ add_codes_text = <<>>
    /\ remove_codes_text = <<>>
    /\ unwanted = {}
    /\ df_out = NoOutput
    /\ shown = "info"
    /\ df = EmptyGroup
    /\ unwanted_codes = DefaultUnwantedLiteral
    /\ pc_result = NoResult
    /\ val = <<>>
    /\ score = <<>>

\* one more observation row in the group, in source order
AddRow ==
    /\ ~pc_result.done
    /\ Len(df.rows) < MaxRows
    /\ \E cm \in RowPool :
         df' = [df EXCEPT !.rows = Append(@,
                  [idx |-> Len(df.rows), PACP_Code |-> cm[1], Continuous |-> cm[2]])]
    /\ UNCHANGED <<unwanted_codes, pc_result>>
    /\ UNCHANGED <<DEFAULT_UNWANTED, uiVars, scoreVars>>

\* codes = process_codes(group, unwanted_codes), line 102
RunProcessCodes ==
    /\ ~pc_result.done
    /\ \E u \in UnwantedPool :
         /\ unwanted_codes' = u
         /\ pc_result' = [done |-> TRUE, out |-> process_codes(df, u)]
    /\ UNCHANGED df
    /\ UNCHANGED <<DEFAULT_UNWANTED, uiVars, scoreVars>>

NextCodes == AddRow \/ RunProcessCodes

SpecCodes == Init /\ [][NextCodes]_vars

----------------------------------------------------------------------------
(* Reading the state of a finished process_codes call *)

Out == pc_result.out
Final == Out.final

\* the rows of the group that survive the exclusion, in source order
Surviving == SelectSeq(df.rows,
                LAMBDA r : r["PACP_Code"] \notin unwanted_codes /\ ~isna(r["PACP_Code"]))

\* the rows whose raw code is a member of the exclusion set
ExcludedIdx == {r["idx"] : r \in {df.rows[i] : i \in 1..Len(df.rows)}} \
               {Surviving[i]["idx"] : i \in 1..Len(Surviving)}

SurvivingCodes == {CodeOf(Surviving[i]) : i \in 1..Len(Surviving)}

Consumed(r) == r["idx"] \in Out.used_indices

\* positions in Surviving of the rows of code c, consumed or not
RowsOf(c, consumed) ==
    {i \in 1..Len(Surviving) :
        CodeOf(Surviving[i]) = c /\ Consumed(Surviving[i]) = consumed}

\* the text of an entry before its first blank: the code
RECURSIVE EntryCode(_)
EntryCode(e) ==
    IF e = <<>> \/ Head(e) = " " THEN <<>> ELSE <<Head(e)>> \o EntryCode(Tail(e))

EntryIsCont(e) == \E i \in 1..Len(e) : e[i] = COPYRIGHT

\* the entries of final for code c in one category
EntriesOf(c, cont) ==
    {k \in 1..Len(Final) : EntryCode(Final[k]) = c /\ EntryIsCont(Final[k]) = cont}

\* the suffixes of code c that a surviving start row and a surviving finish
\* row share
StartSuffixes(c) ==
    {From1(ContOf(Surviving[i])) : i \in {j \in 1..Len(Surviving) :
        CodeOf(Surviving[j]) = c /\ startswith(ContOf(Surviving[j]), "S")}}
FinishSuffixes(c) ==
    {From1(ContOf(Surviving[i])) : i \in {j \in 1..Len(Surviving) :
        CodeOf(Surviving[j]) = c /\ startswith(ContOf(Surviving[j]), "F")}}
PairedSuffixes(c) == StartSuffixes(c) \cap FinishSuffixes(c)

\* surviving rows of code c carrying marker letter l with suffix s and consumed
ConsumedWith(c, l, s) ==
    {i \in RowsOf(c, TRUE) :
        startswith(ContOf(Surviving[i]), l) /\ From1(ContOf(Surviving[i])) = s}

\* every surviving row of code c carries exactly the text c
WrittenPlain(c) ==
    \A i \in RowsOf(c, TRUE) \cup RowsOf(c, FALSE) : Surviving[i]["PACP_Code"] = c

ExpectedCont(c, n) ==
    IF n = 1 THEN c \o <<" ", COPYRIGHT>> ELSE c \o <<" ", COPYRIGHT, "X">> \o DecStr(n)

ExpectedOrdinary(c, n) ==
    IF n = 1 THEN c ELSE c \o <<" ", "X">> \o DecStr(n)

\* C1: every code with an unconsumed surviving row gets exactly one ordinary
\* entry, whose count is the number of unconsumed surviving rows of the code.
\* Stated for the codes whose rows are all written without surrounding blanks,
\* where trimming plays no part.
C1_OrdinaryCountExcludesConsumed ==
    pc_result.done =>
        \A c \in SurvivingCodes :
            (RowsOf(c, FALSE) # {} /\ WrittenPlain(c)) =>
                /\ Cardinality(EntriesOf(c, FALSE)) = 1
                /\ \A k \in EntriesOf(c, FALSE) :
                     Final[k] = ExpectedOrdinary(c, Cardinality(RowsOf(c, FALSE)))

\* C2: a code has a continuous entry exactly when one of its suffixes has a
\* surviving start row and a surviving finish row; the entry counts those
\* suffixes; each such key consumes exactly one start row and one finish row
\* and no other row is consumed.
C2_ContinuousPairs ==
    pc_result.done =>
        /\ \A c \in SurvivingCodes :
             /\ (EntriesOf(c, TRUE) # {}) <=> (PairedSuffixes(c) # {})
             /\ \A k \in EntriesOf(c, TRUE) :
                  Final[k] = ExpectedCont(c, Cardinality(PairedSuffixes(c)))
             /\ \A sfx \in PairedSuffixes(c) :
                  /\ Cardinality(ConsumedWith(c, "S", sfx)) = 1
                  /\ Cardinality(ConsumedWith(c, "F", sfx)) = 1
             /\ \A i \in RowsOf(c, TRUE) :
                  \E sfx \in PairedSuffixes(c) :
                     i \in ConsumedWith(c, "S", sfx) \cup ConsumedWith(c, "F", sfx)
        /\ Out.used_indices \subseteq {Surviving[i]["idx"] : i \in 1..Len(Surviving)}

\* a start marker written on two rows of a code and matched by one finish row:
\* one pair, the other start row left unconsumed
C2_Witness ==
    /\ pc_result.done
    /\ \E c \in SurvivingCodes :
         /\ EntriesOf(c, TRUE) # {}
         /\ \E i \in RowsOf(c, FALSE) :
              /\ startswith(ContOf(Surviving[i]), "S")
              /\ From1(ContOf(Surviving[i])) \in PairedSuffixes(c)

\* the rows whose raw code is a member of the exclusion set
IsExcluded(r) == r["PACP_Code"] \in unwanted_codes

ExcludedIdxs == {df.rows[i]["idx"] : i \in {j \in 1..Len(df.rows) : IsExcluded(df.rows[j])}}

DictVals(d) == {d.vals[i] : i \in 1..Len(d.vals)}

WithoutExcluded == [df EXCEPT !.rows = SelectSeq(@, LAMBDA r : ~IsExcluded(r))]

\* C3: a row whose code is in the exclusion set is in neither lookup, is never
\* consumed, and the returned list is the list returned for the group with
\* the excluded rows deleted.
C3_ExcludedRowsContributeNothing ==
    pc_result.done =>
        /\ DictVals(Out.so_lookup) \cap ExcludedIdxs = {}
        /\ DictVals(Out.fo_lookup) \cap ExcludedIdxs = {}
        /\ Out.used_indices \cap ExcludedIdxs = {}
        /\ Final = process_codes(WithoutExcluded, unwanted_codes).final

\* an excluded finish row next to a surviving start row of the same trimmed
\* code and suffix
C3_Witness ==
    /\ pc_result.done
    /\ Final # <<>>
    /\ \E i, j \in 1..Len(df.rows) :
         /\ IsExcluded(df.rows[i])
         /\ ~IsExcluded(df.rows[j]) /\ ~isna(df.rows[j]["PACP_Code"])
         /\ CodeOf(df.rows[i]) = CodeOf(df.rows[j])
         /\ startswith(ContOf(df.rows[i]), "F")
         /\ startswith(ContOf(df.rows[j]), "S")
         /\ From1(ContOf(df.rows[i])) = From1(ContOf(df.rows[j]))

\* the normalized form of a code: trimmed and upper-cased
Normalized(v) == upper(strip(str(v)))

\* C4: the normalized code is used everywhere: no entry is emitted for a row
\* whose normalized code is empty or excluded, emitted codes are in normalized
\* form, and rows with the same normalized code share one entry per category.
C4_OneNormalizedForm ==
    pc_result.done =>
        /\ \A k \in 1..Len(Final) :
             /\ EntryCode(Final[k]) # <<>>
             /\ EntryCode(Final[k]) \notin unwanted_codes
             /\ EntryCode(Final[k]) = upper(EntryCode(Final[k]))
        /\ \A k1, k2 \in 1..Len(Final) :
             (/\ upper(EntryCode(Final[k1])) = upper(EntryCode(Final[k2]))
              /\ EntryIsCont(Final[k1]) = EntryIsCont(Final[k2])) => k1 = k2

\* the (code, category) of each surviving row, first occurrences only
RECURSIVE FirstSeen(_, _)
FirstSeen(rows, acc) ==
    IF rows = <<>> THEN acc
    ELSE LET key == <<CodeOf(Head(rows)), Consumed(Head(rows))>>
         IN  FirstSeen(Tail(rows),
                       IF \E i \in 1..Len(acc) : acc[i] = key THEN acc ELSE Append(acc, key))

\* C5: one entry per (code, category), in the order in which the first row of
\* each (code, category) occurs in the group.
C5_OncePerCategoryInRowOrder ==
    pc_result.done =>
        LET keys == FirstSeen(Surviving, <<>>)
        IN  /\ Len(Final) = Len(keys)
            /\ \A k \in 1..Len(keys) :
                 /\ EntryCode(Final[k]) = keys[k][1]
                 /\ EntryIsCont(Final[k]) = keys[k][2]

\* a code emitted in both categories, its ordinary entry first, and another
\* code besides
C5_Witness ==
    /\ pc_result.done
    /\ Len(Final) >= 3
    /\ \E c \in SurvivingCodes :
         /\ Cardinality(RowsOf(c, TRUE)) >= 2
         /\ RowsOf(c, FALSE) # {}
         /\ \E k1 \in EntriesOf(c, FALSE), k2 \in EntriesOf(c, TRUE) : k1 < k2

\* C9 as stated: as many entries as distinct surviving codes.
C9_OneEntryPerCode ==
    pc_result.done => Len(Final) = Cardinality(SurvivingCodes)

BothCategories == {c \in SurvivingCodes : RowsOf(c, TRUE) # {} /\ RowsOf(c, FALSE) # {}}

\* the text of an entry from its first blank on
EntryRest(e) == SubSeq(e, Len(EntryCode(e)) + 1, Len(e))

AllDigits(t) == t # <<>> /\ \A i \in 1..Len(t) : IsDigit(t[i])

IsContShape(t) ==
    \/ t = <<" ", COPYRIGHT>>
    \/ Len(t) > 3 /\ SubSeq(t, 1, 3) = <<" ", COPYRIGHT, "X">> /\ AllDigits(SubSeq(t, 4, Len(t)))

IsOrdinaryShape(t) ==
    \/ t = <<>>
    \/ Len(t) > 2 /\ SubSeq(t, 1, 2) = <<" ", "X">> /\ AllDigits(SubSeq(t, 3, Len(t)))

\* C9 amended: one entry per distinct surviving code, and a second one for
\* each code that has consumed and unconsumed rows; an entry is annotated as
\* continuous or as ordinary, never both.
C9_OneEntryPerCodeAndCategory ==
    pc_result.done =>
        /\ Len(Final) = Cardinality(SurvivingCodes) + Cardinality(BothCategories)
        /\ \A k \in 1..Len(Final) :
             IsContShape(EntryRest(Final[k])) # IsOrdinaryShape(EntryRest(Final[k]))

C9_Witness ==
    /\ pc_result.done
    /\ BothCategories # {}
    /\ Cardinality(SurvivingCodes) >= 2
    /\ Len(Final) = Cardinality(SurvivingCodes) + 1

----------------------------------------------------------------------------
(* Rating values handed to to_4digit_score *)

ScoreChars == {"1", "0", "E", ".", " "}

\* one more character of the rating cell
TypeScoreChar ==
    /\ score = <<>>
    /\ ~isna(val)
    /\ Len(val) < MaxValLen
    /\ \E ch \in ScoreChars : val' = Append(val, ch)
    /\ UNCHANGED score
    /\ UNCHANGED <<DEFAULT_UNWANTED, uiVars, codesVars>>

\* the rating cell is empty (NaN after the left join) or None
ClearScoreCell ==
    /\ score = <<>>
    /\ val = <<>>
    /\ \E missing \in {NaN, NoneVal} : val' = missing
    /\ UNCHANGED score
    /\ UNCHANGED <<DEFAULT_UNWANTED, uiVars, codesVars>>

\* str_score = to_4digit_score(stquick), lines 109-110
RunScore ==
    /\ score = <<>>
    /\ score' = to_4digit_score(val)
    /\ UNCHANGED val
    /\ UNCHANGED <<DEFAULT_UNWANTED, uiVars, codesVars>>

NextScore == TypeScoreChar \/ ClearScoreCell \/ RunScore

SpecScore == Init /\ [][NextScore]_vars

\* the first four characters of the first digit run, zero-padded on the left
ExpectedScore(v) ==
    LET run == IF isna(v) THEN <<>> ELSE FirstDigitRun(strip(str(v)))
        cut == SubSeq(run, 1, IF Len(run) > 4 THEN 4 ELSE Len(run))
    IN  [i \in 1..4 |-> IF i <= 4 - Len(cut) THEN "0" ELSE cut[i - (4 - Len(cut))]]

\* C8: the score is exactly four digit characters: the first digit run,
\* zero-padded or truncated to four, and 0000 without a digit.
C8_ScoreIsFourDigits ==
    score # <<>> =>
        /\ Len(score) = 4
        /\ \A i \in 1..Len(score) : IsDigit(score[i])
        /\ score = ExpectedScore(val)

----------------------------------------------------------------------------
(* The "Process" button handler, lines 178-207 *)

\* text.replace("\n", ",")
ReplaceNewlines(text) == [i \in 1..Len(text) |-> IF text[i] = "\n" THEN "," ELSE text[i]]

\* text.split(",")
RECURSIVE SplitFrom(_, _)
SplitFrom(text, cur) ==
    IF text = <<>> THEN <<cur>>
    ELSE IF Head(text) = "," THEN <<cur>> \o SplitFrom(Tail(text), <<>>)
    ELSE SplitFrom(Tail(text), Append(cur, Head(text)))

split(text) == SplitFrom(text, <<>>)

\* lines 187-191
RECURSIVE AddLoop(_, _)
AddLoop(set, toks) ==
    IF toks = <<>> THEN set
    ELSE LET cod == upper(strip(Head(toks)))
         IN  AddLoop(IF cod # <<>> THEN set \cup {cod} ELSE set, Tail(toks))

\* lines 194-198
RECURSIVE RemoveLoop(_, _)
RemoveLoop(set, toks) ==
    IF toks = <<>> THEN set
    ELSE LET cod == upper(strip(Head(toks)))
         IN  RemoveLoop(IF cod \in set THEN set \ {cod} ELSE set, Tail(toks))

AfterAdd(set, add_text) ==
    IF strip(add_text) # <<>> THEN AddLoop(set, split(ReplaceNewlines(add_text))) ELSE set

AfterRemove(set, remove_text) ==
    IF strip(remove_text) # <<>>
    THEN RemoveLoop(set, split(ReplaceNewlines(remove_text))) ELSE set

\* variant: the removals are applied before the additions
BuildUnwanted_removeFirst(default, add_text, remove_text) ==
    AfterAdd(AfterRemove(default, remove_text), add_text)

\* lines 184-198: a copy of the default set, then the additions, then the
\* removals
BuildUnwanted(default, add_text, remove_text) ==
    AfterRemove(AfterAdd(default, add_text), remove_text)

\* A rerun of the script without the button pressed: only the info line is
\* shown (line 221), nothing of an earlier run is kept.
Rerun ==
    /\ unwanted' = {}
    /\ df_out' = NoOutput
    /\ shown' = "info"

\* the user presses Process
ProcessRun ==
    /\ IF ~(conditions_file.present /\ inspections_file.present /\ ratings_file.present)
       THEN /\ shown' = "error"
            /\ unwanted' = {}
            /\ df_out' = NoOutput
       ELSE /\ unwanted' = BuildUnwanted(DEFAULT_UNWANTED, add_codes_text, remove_codes_text)
            /\ df_out' = process_files(conditions_file, inspections_file, ratings_file,
                                       unwanted')
            /\ shown' = IF df_out'.err THEN "exception" ELSE "success"
    /\ UNCHANGED <<DEFAULT_UNWANTED, conditions_file, inspections_file, ratings_file,
                   add_codes_text, remove_codes_text>>
    /\ UNCHANGED <<codesVars, scoreVars>>

TextChars == {"t", "f", ",", " ", "\n"}

\* the user types into "Add codes"
EditAdd ==
    /\ Len(add_codes_text) < MaxAddLen
    /\ \E ch \in TextChars : add_codes_text' = Append(add_codes_text, ch)
    /\ Rerun
    /\ UNCHANGED <<DEFAULT_UNWANTED, conditions_file, inspections_file, ratings_file,
                   remove_codes_text>>
    /\ UNCHANGED <<codesVars, scoreVars>>

\* the user types into "Remove codes"
EditRemove ==
    /\ Len(remove_codes_text) < MaxRemoveLen
    /\ \E ch \in TextChars : remove_codes_text' = Append(remove_codes_text, ch)
    /\ Rerun
    /\ UNCHANGED <<DEFAULT_UNWANTED, conditions_file, inspections_file, ratings_file,
                   add_codes_text>>
    /\ UNCHANGED <<codesVars, scoreVars>>

\* Sheet rows.  InspectionID is the key of the inspections and of the ratings
\* sheet: no two of their rows share it.
ConditionRowPool ==
    { [InspectionID |-> id, PACP_Code |-> cm[1], Continuous |-> cm[2]] :
        id \in {1, 2},
        cm \in { <<<<"D">>, <<"S","1">>>>, <<<<"T","F">>, NaN>> } }

InspectionRow(id, seg) ==
    [InspectionID |-> id,
     Pipe_Segment_Reference |-> seg,
     Inspection_Date |-> <<"2","0","2","4">>,
     Street |-> IF id = 1 THEN <<"M","a","i","n">> ELSE NaN,
     City |-> <<"X">>,
     Length_Surveyed |-> IF id = 1 THEN Num(12346) ELSE <<"n","/","a">>,
     Height |-> Num(8000),
     Material |-> <<"V","C","P">>,
     Upstream_MH |-> <<"M","1">>,
     Downstream_MH |-> <<"M","2">>]

InspectionRowPool ==
    { InspectionRow(id, seg) : id \in {1, 2}, seg \in { <<"P","1">>, <<"P","2">>, NaN } }

RatingRowPool ==
    { [InspectionID |-> 1, STQuickRating |-> <<"2","8","1","E">>,
       OMQuickRating |-> <<"2","D","0","0">>, OverallPipeRatingsIndex |-> Num(3000)],
      [InspectionID |-> 2, STQuickRating |-> NaN,
       OMQuickRating |-> <<"E">>, OverallPipeRatingsIndex |-> <<"x">>] }

EmptySheet(cols) == [columns |-> SetOf(cols), rows |-> <<>>, present |-> TRUE]

HasId(file, id) == \E i \in 1..Len(file.rows) : file.rows[i]["InspectionID"] = id

Dropped ==
    Cardinality(SetOf(ConditionColumns) \ conditions_file.columns)
  + Cardinality(SetOf(InspectionColumns) \ inspections_file.columns)
  + Cardinality(SetOf(RatingColumns) \ ratings_file.columns)

\* the uploaded conditions sheet has one more row
AddConditionRow ==
    /\ conditions_file.present
    /\ Len(conditions_file.rows) < MaxCondRows
    /\ \E r \in ConditionRowPool :
         conditions_file' = [conditions_file EXCEPT !.rows = Append(@, r)]
    /\ Rerun
    /\ UNCHANGED <<DEFAULT_UNWANTED, inspections_file, ratings_file,
                   add_codes_text, remove_codes_text>>
    /\ UNCHANGED <<codesVars, scoreVars>>

\* the uploaded inspections sheet has one more row
AddInspectionRow ==
    /\ inspections_file.present
    /\ Len(inspections_file.rows) < MaxInspRows
    /\ \E r \in InspectionRowPool :
         /\ ~HasId(inspections_file, r["InspectionID"])
         /\ inspections_file' = [inspections_file EXCEPT !.rows = Append(@, r)]
    /\ Rerun
    /\ UNCHANGED <<DEFAULT_UNWANTED, conditions_file, ratings_file,
                   add_codes_text, remove_codes_text>>
    /\ UNCHANGED <<codesVars, scoreVars>>

\* the uploaded ratings sheet has one more row
AddRatingRow ==
    /\ ratings_file.present
    /\ Len(ratings_file.rows) < MaxRatingRows
    /\ \E r \in RatingRowPool :
         /\ ~HasId(ratings_file, r["InspectionID"])
         /\ ratings_file' = [ratings_file EXCEPT !.rows = Append(@, r)]
    /\ Rerun
    /\ UNCHANGED <<DEFAULT_UNWANTED, conditions_file, inspections_file,
                   add_codes_text, remove_codes_text>>
    /\ UNCHANGED <<codesVars, scoreVars>>

\* an uploaded sheet lacks one of its columns
DropColumn ==
    /\ conditions_file.present /\ inspections_file.present /\ ratings_file.present
    /\ Dropped < MaxDropped
    /\ \/ \E c \in conditions_file.columns :
            /\ conditions_file' = [conditions_file EXCEPT !.columns = @ \ {c}]
            /\ UNCHANGED <<inspections_file, ratings_file>>
       \/ \E c \in inspections_file.columns :
            /\ inspections_file' = [inspections_file EXCEPT !.columns = @ \ {c}]
            /\ UNCHANGED <<conditions_file, ratings_file>>
       \/ \E c \in ratings_file.columns :
            /\ ratings_file' = [ratings_file EXCEPT !.columns = @ \ {c}]
            /\ UNCHANGED <<conditions_file, inspections_file>>
    /\ Rerun
    /\ UNCHANGED <<DEFAULT_UNWANTED, add_codes_text, remove_codes_text>>
    /\ UNCHANGED <<codesVars, scoreVars>>

\* three sheets are uploaded, with their header rows only
InitFiles ==
    /\ DEFAULT_UNWANTED = DefaultUnwantedLiteral
    /\ conditions_file = EmptySheet(ConditionColumns)
    /\ inspections_file = EmptySheet(InspectionColumns)
    /\ ratings_file = EmptySheet(RatingColumns)
    /\ add_codes_text = <<>>
    /\ remove_codes_text = <<>>
    /\ unwanted = {}
    /\ df_out = NoOutput
    /\ shown = "info"
    /\ df = EmptyGroup
    /\ unwanted_codes = DefaultUnwantedLiteral
    /\ pc_result = NoResult
    /\ val = <<>>
    /\ score = <<>>

NextFiles ==
    AddConditionRow \/ AddInspectionRow \/ AddRatingRow \/ DropColumn \/ ProcessRun

SpecFiles == InitFiles /\ [][NextFiles]_vars

Ran == shown \in {"success", "exception"}

\* the segment reference the left join gives a conditions row
SegmentOf(id) ==
    IF HasId(inspections_file, id)
    THEN (CHOOSE r \in SetOf(inspections_file.rows) :
            r["InspectionID"] = id)["Pipe_Segment_Reference"]
    ELSE NaN

\* the (InspectionID, Pipe_Segment_Reference) pairs of the left-joined table
JoinedPairs ==
    {<<conditions_file.rows[i]["InspectionID"],
       SegmentOf(conditions_file.rows[i]["InspectionID"])>> :
        i \in 1..Len(conditions_file.rows)}

\* the output rows whose group holds the i-th conditions row (the join is
\* one to one, so the i-th conditions row is the row of index i - 1)
RowsHolding(i) ==
    {k \in 1..Len(df_out.groups) :
        \E j \in 1..Len(df_out.groups[k]) : df_out.groups[k][j]["idx"] = i - 1}

\* C6: one output row per distinct pair of the left-joined table, and every
\* conditions row is in the group of exactly one output row.
C6_NoConditionRowLost ==
    shown = "success" =>
        /\ Len(df_out.rows) = Cardinality(JoinedPairs)
        /\ \A i \in 1..Len(conditions_file.rows) : Cardinality(RowsHolding(i)) = 1

OptionalInspectionColumns ==
    SetOf(InspectionColumns) \ {"InspectionID", "Pipe_Segment_Reference"}
OptionalRatingColumns == SetOf(RatingColumns) \ {"InspectionID"}

OutputFields ==
    {"InspectionID", "Pipe_Segment_Reference", "Inspection_Date", "Street", "City",
     "Length_Surveyed", "Diameter", "Material", "Upstream_MH", "Downstream_MH",
     "STR_Score", "OM_Scores", "Overall_Scores", "codes"}

\* the output field fed by a column
FieldOf(col) ==
    IF col = "Height" THEN "Diameter"
    ELSE IF col = "STQuickRating" THEN "STR_Score"
    ELSE IF col = "OMQuickRating" THEN "OM_Scores"
    ELSE IF col = "OverallPipeRatingsIndex" THEN "Overall_Scores"
    ELSE col

\* the output had every sheet all its columns
FullOutput ==
    process_files([conditions_file EXCEPT !.columns = SetOf(ConditionColumns)],
                  [inspections_file EXCEPT !.columns = SetOf(InspectionColumns)],
                  [ratings_file EXCEPT !.columns = SetOf(RatingColumns)],
                  unwanted)

MissingOptional ==
    (OptionalInspectionColumns \ inspections_file.columns)
    \cup (OptionalRatingColumns \ ratings_file.columns)

OnlyOptionalMissing ==
    /\ MissingOptional # {}
    /\ conditions_file.columns = SetOf(ConditionColumns)
    /\ {"InspectionID", "Pipe_Segment_Reference"} \subseteq inspections_file.columns
    /\ "InspectionID" \in ratings_file.columns

\* C7: with only optional scalar columns missing the run completes, and the
\* output differs from the output with the columns present in the fields
\* those columns feed only.
C7_OptionalColumnDegradesGracefully ==
    (Ran /\ OnlyOptionalMissing) =>
        /\ ~df_out.err
        /\ Len(df_out.rows) = Len(FullOutput.rows)
        /\ \A k \in 1..Len(df_out.rows) :
             \A f \in OutputFields \ {FieldOf(c) : c \in MissingOptional} :
                df_out.rows[k][f] = FullOutput.rows[k][f]

----------------------------------------------------------------------------
(* The page: three uploads, two text areas, the button *)

UploadedConditions ==
    [columns |-> SetOf(ConditionColumns), present |-> TRUE,
     rows |-> << [InspectionID |-> 1, PACP_Code |-> <<"T","F">>, Continuous |-> NaN],
                 [InspectionID |-> 1, PACP_Code |-> <<"T">>, Continuous |-> NaN],
                 [InspectionID |-> 1, PACP_Code |-> <<"F">>, Continuous |-> <<"S","1">>] >>]

UploadedInspections ==
    [columns |-> SetOf(InspectionColumns), present |-> TRUE,
     rows |-> << InspectionRow(1, <<"P","1">>) >>]

UploadedRatings ==
    [columns |-> SetOf(RatingColumns), present |-> TRUE,
     rows |-> << [InspectionID |-> 1, STQuickRating |-> <<"2","8","1","E">>,
                  OMQuickRating |-> <<"2","D","0","0">>,
                  OverallPipeRatingsIndex |-> Num(3000)] >>]

UploadConditions ==
    /\ ~conditions_file.present
    /\ conditions_file' = UploadedConditions
    /\ Rerun
    /\ UNCHANGED <<DEFAULT_UNWANTED, inspections_file, ratings_file,
                   add_codes_text, remove_codes_text>>
    /\ UNCHANGED <<codesVars, scoreVars>>

UploadInspections ==
    /\ ~inspections_file.present
    /\ inspections_file' = UploadedInspections
    /\ Rerun
    /\ UNCHANGED <<DEFAULT_UNWANTED, conditions_file, ratings_file,
                   add_codes_text, remove_codes_text>>
    /\ UNCHANGED <<codesVars, scoreVars>>

UploadRatings ==
    /\ ~ratings_file.present
    /\ ratings_file' = UploadedRatings
    /\ Rerun
    /\ UNCHANGED <<DEFAULT_UNWANTED, conditions_file, inspections_file,
                   add_codes_text, remove_codes_text>>
    /\ UNCHANGED <<codesVars, scoreVars>>

Next ==
    \/ UploadConditions
    \/ UploadInspections
    \/ UploadRatings
    \/ EditAdd
    \/ EditRemove
    \/ ProcessRun

Spec == Init /\ [][Next]_vars

IsSeparator(ch) == ch \in {",", "\n"}

\* the trimmed, upper-cased, non-empty tokens of a text area: the pieces
\* between separators
TokensOf(text) ==
    { upper(strip(SubSeq(text, i, j))) :
        <<i, j>> \in { p \in (1..Len(text) + 1) \X (0..Len(text)) :
            /\ p[1] <= p[2] + 1
            /\ \A k \in p[1]..p[2] : ~IsSeparator(text[k])
            /\ (p[1] = 1 \/ IsSeparator(text[p[1] - 1]))
            /\ (p[2] = Len(text) \/ IsSeparator(text[p[2] + 1])) } } \ {<<>>}

\* C10: the default set is never changed, and the set a run uses is the
\* default set plus that run's add tokens minus that run's remove tokens.
C10_ExclusionSetPerRun ==
    /\ DEFAULT_UNWANTED = DefaultUnwantedLiteral
    /\ Ran => unwanted = (DefaultUnwantedLiteral \cup TokensOf(add_codes_text))
                            \ TokensOf(remove_codes_text)

\* a run whose add and remove texts share a token and whose set still
\* differs from the default set
C10_Witness ==
    /\ shown = "success"
    /\ TokensOf(add_codes_text) \cap TokensOf(remove_codes_text) # {}
    /\ unwanted # DefaultUnwantedLiteral

====
